---- MODULE Spec2Model ----
(***************************************************************************)
(* Model of setup-llvm-repos.py: the orchestration script that creates an  *)
(* LLVM trunk subvolume ("-r" mode) or a working snapshot of it ("-s"      *)
(* mode), through the command execution facade docmd / doscmd / dochdir.   *)
(*                                                                         *)
(* The control thread is modelled as a continuation `todo`: the sequence   *)
(* of calls still to be made.  A function entry action replaces the call   *)
(* at the head of `todo` by the calls of the function's body; the facade   *)
(* actions execute one primitive each.                                     *)
(*                                                                         *)
(* Strings stay strings ("a" \o "b" is Python's concatenation / "%s").     *)
(* Directories are sequences of path components (<<"/", "ssd", "vol">> is  *)
(* "/ssd/vol") so that os.chdir / os.getcwd can be computed.  A ccflav     *)
(* setting is a sequence of lexical tokens (<<"bootstrap", "=",            *)
(* "build.opt">> is "bootstrap=build.opt") so that the regular expression  *)
(* of bootstrap_tooldir can be matched on it.                              *)
(***************************************************************************)
EXTENDS Naturals, Sequences, FiniteSets, TLC

\* ----------------------------------------------------------------- bounds
\* A command line holds at most MaxOpts options.
MaxOpts == 5
\* "find . -depth -name .git" reports at most MaxFound directories.
MaxFound == 2

\* ------------------------------------------------------ values and paths
None == "<None>"

Falsy(x) == x = None \/ x = ""

RECURSIVE PathStr(_)
PathStr(p) ==
  IF Len(p) = 0 THEN ""
  ELSE IF Len(p) = 1 THEN p[1]
  ELSE IF p[1] = "/" THEN "/" \o PathStr(Tail(p))
  ELSE p[1] \o "/" \o PathStr(Tail(p))

RECURSIVE Walk(_, _)
Walk(base, p) ==
  IF p = <<>> THEN base
  ELSE IF p[1] = "." THEN Walk(base, Tail(p))
  ELSE IF p[1] = ".." THEN
    Walk(IF Len(base) > 1 THEN SubSeq(base, 1, Len(base) - 1) ELSE base, Tail(p))
  ELSE Walk(Append(base, p[1]), Tail(p))

\* os.chdir(p) from directory cwd: the new current directory.
Chdir(cwd, p) == IF p # <<>> /\ p[1] = "/" THEN p ELSE Walk(cwd, p)

RECURSIVE Join(_)
Join(toks) == IF toks = <<>> THEN "" ELSE toks[1] \o Join(Tail(toks))

\* The directory the script is started in, and the SSD root
\* u.determine_btrfs_ssdroot(here) answers for it.
StartDir == <<"/", "ssd", "work">>
SsdRoot == <<"/", "ssd">>

\* ------------------------------------------------------------ repositories
llvm_rw_svn_template == "https://REPLACE_WITH_USER@llvm.org/svn/llvm-project"
llvm_git_on_svn == "https://llvm.org/svn/llvm-project"
llvm_ro_svn == "http://llvm.org/svn/llvm-project"
binutils_git == "git://sourceware.org/git/binutils-gdb.git"
llvm_git == "http://llvm.org/git/llvm.git"
clang_git == "http://llvm.org/git/clang.git"
clang_tools_git == "http://llvm.org/git/clang-tools-extra.git"
compiler_rt_git == "http://llvm.org/git/compiler-rt.git"
llgo_git == "http://llvm.org/git/llgo.git"

clang_c_compiler == "/usr/bin/clang-3.6"
clang_cxx_compiler == "/usr/bin/clang++-3.6"
gcc_c_compiler == "/usr/bin/gcc-4.8"
gcc_cxx_compiler == "/usr/bin/g++-4.8"

covopt == "--coverage"

\* re.sub("REPLACE_WITH_USER", flag_user, llvm_rw_svn)
llvm_rw_svn_for(user) == "https://" \o user \o "@llvm.org/svn/llvm-project"

\* ------------------------------------------------- build-configuration table
legal_tags == {"cmflav", "ccflav", "extra", "early"}

\* The shipped table.  An entry is a dict: a function from its tags.
ShippedFlavors ==
  ( "opt" :> [cmflav |-> None, early |-> "1", ccflav |-> <<"clang">>,
              extra |-> None] )
  @@
  ( "dbg" :> [cmflav |-> None, early |-> "1", ccflav |-> <<"clang">>,
              extra |-> "-DCXX_SUPPORTS_COVERED_SWITCH_DEFAULT_FLAG=0 "
                        \o "-DCMAKE_C_FLAGS='-g -O0' "
                        \o "-DCMAKE_CXX_FLAGS='-g -O0'"] )
  @@
  ( "rel" :> [cmflav |-> "Release", early |-> "1", ccflav |-> <<"gcc">>,
              extra |-> None] )
  @@
  ( "cov" :> [cmflav |-> None, ccflav |-> <<"def">>,
              extra |-> "-DCMAKE_C_FLAGS='" \o covopt \o "' "
                        \o "-DCMAKE_CXX_FLAGS='" \o covopt \o "'"] )
  @@
  ( "clbootstrap.rel" :> [cmflav |-> "Release", ccflav |-> <<"gcc">>,
                          extra |-> "-DCLANG_ENABLE_BOOTSTRAP=On"] )
  @@
  ( "bootstrap.reldb" :> [cmflav |-> "RelWithDebInfo",
                          ccflav |-> <<"bootstrap", "=", "build.opt">>,
                          extra |-> "-DLLVM_BUILD_EXAMPLES=Off "
                                    \o "-DCOMPILER_RT_BUILD_BUILTINS=Off "] )

\* ----------------------------------------------------------- command line
\* A command line is a set of (option, argument) pairs; ("-Z", "") is an
\* option getopt does not know, ("", "extra") a positional argument.
Flags == {"-D", "-G", "-J", "-F", "-T", "-X", "-q", "-d", "-n", "-N"}
ScmArgs == {"git", "svn", "git-svn", "cvs"}

Tokens ==
  {<<f, "">> : f \in Flags}
    \cup {<<"-S", a>> : a \in ScmArgs}
    \cup {<<"-r", "vol">>, <<"-s", "snap">>, <<"-Z", "">>, <<"", "extra">>}

CmdLines ==
  {a \in SUBSET Tokens :
     /\ Cardinality(a) <= MaxOpts
     /\ Cardinality({t \in a : t[1] = "-S"}) <= 1}

Has(argv, o) == \E t \in argv : t[1] = o

ArgOf(argv, o) == (CHOOSE t \in argv : t[1] = o)[2]

VARIABLES
  argv,                \* sys.argv[1:]
  cmake_flavors,       \* the build-configuration table
  flag_subvol, flag_snapshot, flag_user, flag_binutils_build, flag_run_ninja,
  flag_echo, flag_dryrun, flag_scm_flavor, flag_cmake_type, flag_do_fetch,
  flag_include_tools, flag_include_llgo, flag_parallel, ssdroot, llvm_rw_svn,
  verbosity,           \* script_utils' verbosity level
  pc,                  \* "parse", "run", "done", or "flavor" (SpecFlavor)
  todo,                \* calls the control thread still has to make
  heres,               \* stack of the `here` locals of the active functions
  cwd,                 \* the process's current directory
  log,                 \* lines written to the diagnostic / output streams
  wet,                 \* twin run without -D: [log, cwd, heres]
  issued,              \* commands handed to docmd / doscmd, in order
  procs,               \* external processes actually spawned, in order
  nchdir,              \* number of os.chdir calls performed
  files,               \* files written: <<directory, name>>
  pool,                \* whether the worker pool has been created
  results,             \* invocations dispatched to the pool
  remaining,           \* table entries the do_setup_cmake loop has not visited
  curflav,             \* the table entry the loop is at
  failed,              \* whether an external command or chdir has failed
  exit,                \* "running", "ok", "usage", "fatal", "exception"
  errmsg,              \* the message of the error the run ended with
  resolved             \* result of the last select_compiler_flavor call

flagvars ==
  <<flag_subvol, flag_snapshot, flag_user, flag_binutils_build, flag_run_ninja,
    flag_echo, flag_dryrun, flag_scm_flavor, flag_cmake_type, flag_do_fetch,
    flag_include_tools, flag_include_llgo, flag_parallel, ssdroot, llvm_rw_svn,
    verbosity>>

envvars == <<argv, cmake_flavors>>

vars ==
  <<envvars, flagvars, pc, todo, heres, cwd, log, wet, issued, procs, nchdir,
    files, pool, results, remaining, curflav, failed, exit, errmsg, resolved>>

ExitStatus == IF exit = "ok" THEN 0 ELSE 1

\* --------------------------------------------------- script_utils (u.*)
\* u.docmd(cmd): the strict run-command; a non-zero status is fatal.
u_docmd(ok) == IF ok THEN "ok" ELSE "fatal"

\* u.doscmd(cmd): the non-strict run-command; a non-zero status is
\* swallowed with a warning.
u_doscmd(ok) == IF ok THEN "ok" ELSE "warning"

\* u.doscmd(cmd, True): answers a false value on a non-zero status.
u_doscmd_nf(ok) == ok

\* ------------------------------------------------- results of a function
Ok(v) == [kind |-> "ok", val |-> v]
Fatal(msg) == [kind |-> "fatal", val |-> msg]
Raised(what) == [kind |-> "exception", val |-> what]

\* d[k] of a Python dict d: KeyError when k is no key of d.
DictGet(d, k) == IF k \in DOMAIN d THEN Ok(d[k]) ELSE Raised("KeyError: " \o k)

\* The integer key 2 of the subscript tup[2]; every tag of the table is a
\* string, so it is distinct from each of them.
IntKey2 == "<int 2>"

\* ------------------------------------------- compiler selection helpers
Whitespace == {" ", "\t", "\n"}

\* re.compile(r"^bootstrap\.(\S+)$").match(ccflav), on the tokens of ccflav:
\* the literal "bootstrap", a literal ".", then one or more non-blanks.
RxMatch(ccflav) ==
  /\ Len(ccflav) >= 3
  /\ ccflav[1] = "bootstrap"
  /\ ccflav[2] = "."
  /\ \A i \in 3..Len(ccflav) : ccflav[i] \notin Whitespace

\* m.group(1)
RxGroup1(ccflav) == Join(SubSeq(ccflav, 3, Len(ccflav)))

\* Return tool directory for bootstrap build (None when ccflav is no match).
bootstrap_tooldir(flav) ==
  LET fd == cmake_flavors[flav]
      ccflav == fd["ccflav"]
  IN IF ~RxMatch(ccflav) THEN None
     ELSE PathStr(ssdroot) \o "/" \o flag_subvol \o "/" \o RxGroup1(ccflav)

select_cmake_type(flav) ==
  LET fd == cmake_flavors[flav]
  IN IF "cmflav" \notin DOMAIN fd
     THEN Fatal("internal error: build flavor " \o flav \o " has no cmflav setting")
     ELSE IF Falsy(fd["cmflav"]) THEN Ok(flag_cmake_type) ELSE Ok(fd["cmflav"])

select_cmake_extras(flav) ==
  LET fd == cmake_flavors[flav]
  IN IF "extra" \notin DOMAIN fd THEN ""
     ELSE IF Falsy(fd["extra"]) THEN "" ELSE fd["extra"]

select_dyld_library_path(flav) ==
  LET tbdir == bootstrap_tooldir(flav)
  IN IF Falsy(tbdir) THEN "" ELSE "env DYLD_LIBRARY_PATH=" \o tbdir \o "/lib"

CompilerFlags(extrastuff, cc, cxx) ==
  extrastuff \o "-DCMAKE_C_COMPILER=" \o cc \o " -DCMAKE_CXX_COMPILER=" \o cxx

\* Returns string with cmake compiler setup.
select_compiler_flavor(flav) ==
  IF flav \notin DOMAIN cmake_flavors
  THEN Fatal("internal error -- flavor " \o flav \o " not in cmake_flavors")
  ELSE
    LET fd == cmake_flavors[flav] IN
    IF "ccflav" \notin DOMAIN fd
    THEN Fatal("internal error: build flavor " \o flav \o " has no ccflav setting")
    ELSE
      LET ccflav == fd["ccflav"]
          tbdir == bootstrap_tooldir(flav)
      IN IF ccflav = <<"gcc">>
         THEN Ok(CompilerFlags("", gcc_c_compiler, gcc_cxx_compiler))
         ELSE IF ccflav = <<"clang">>
         THEN Ok(CompilerFlags("", clang_c_compiler, clang_cxx_compiler))
         ELSE IF ccflav = <<"def">>
         THEN Ok("")
         ELSE IF ~Falsy(tbdir)
         THEN Ok(CompilerFlags("-DCMAKE_RANLIB=" \o tbdir \o "/bin/llvm-ranlib "
                                 \o "-DCMAKE_AR=" \o tbdir \o "/bin/llvm-ar ",
                               tbdir \o "/bin/clang", tbdir \o "/bin/clang++"))
         ELSE Fatal("internal error -- bad ccflav setting " \o Join(ccflav))

\* Emit/archive cmake cmds for flav: the command line, up to the point
\* where it is printed or written (the first error ends the function).
cmake_cmd_for(flav) ==
  LET bpath == "LLVM_BINUTILS_INCDIR=" \o PathStr(ssdroot) \o "/" \o flag_snapshot
                 \o "/binutils/include"
      tup == cmake_flavors[flav]
      dyldsetting == select_dyld_library_path(flav)
      ccomp == select_compiler_flavor(flav)
      cmake_type == select_cmake_type(flav)
      extra == DictGet(tup, IntKey2)
  IN IF ccomp.kind # "ok" THEN ccomp
     ELSE IF cmake_type.kind # "ok" THEN cmake_type
     ELSE IF extra.kind # "ok" THEN extra
     ELSE Ok(dyldsetting \o " cmake -DCMAKE_BUILD_TYPE=" \o cmake_type.val
               \o " -D" \o bpath \o " " \o ccomp.val \o " " \o extra.val
               \o " -G Ninja ../llvm")

\* Cmake run helper (a worker task): 1 on a bad chdir or a bad status.
run_cmake(chdirOk, cmdOk) ==
  IF ~chdirOk THEN "1"
  ELSE IF ~u_doscmd_nf(cmdOk) THEN "1"
  ELSE "0"

\* ------------------------------------------------------ calls of `todo`
Cmd(c) == [op |-> "docmd", arg |-> c]
SCmd(c) == [op |-> "doscmd", arg |-> c]
Cd(d) == [op |-> "dochdir", arg |-> d]
\* dochdir(here): the directory saved at the entry of the running function
CdHere == [op |-> "dochdir_here", arg |-> <<>>]
Call(f, a) == [op |-> f, arg |-> a]

top == ssdroot \o <<flag_subvol>>

\* The git-svn bridge initialisation of one repository.
GitSvnSteps(dir, project) ==
  IF flag_scm_flavor = "git-svn"
  THEN << Cd(<<dir>>),
          SCmd("git svn init " \o llvm_git_on_svn \o "/" \o project
                 \o "/trunk --username=" \o flag_user),
          SCmd("git config svn-remote.svn.fetch :refs/remotes/origin/master"),
          SCmd("git svn rebase -l") >>
  ELSE <<>>

\* Body of do_subvol_create, after `here = os.getcwd()`.
SubvolSteps ==
  << Cmd("snapshotutil.py mkvol " \o flag_subvol),
     Cd(ssdroot),
     Cd(<<flag_subvol>>) >>
  \o (IF flag_scm_flavor = "svn"
      THEN << SCmd("svn co " \o llvm_rw_svn \o "/llvm/trunk llvm") >>
      ELSE << SCmd("git clone " \o llvm_git) >> \o GitSvnSteps("llvm", "llvm"))
  \o << Cd(top \o <<"llvm", "tools">>) >>
  \o (IF flag_scm_flavor = "svn"
      THEN << SCmd("svn co " \o llvm_ro_svn \o "/cfe/trunk clang") >>
      ELSE << SCmd("git clone " \o clang_git) >> \o GitSvnSteps("clang", "cfe"))
  \o (IF flag_include_tools
      THEN << Cd(top \o <<"llvm", "tools", "clang", "tools">>) >>
           \o (IF flag_scm_flavor = "git"
               THEN << SCmd("svn co " \o llvm_ro_svn
                              \o "/clang-tools-extra/trunk extra") >>
               ELSE << SCmd("git clone " \o clang_tools_git \o " extra") >>
                    \o GitSvnSteps("extra", "clang-tools-extra"))
      ELSE <<>>)
  \o (IF flag_include_llgo
      THEN << Cd(top \o <<"llvm", "tools">>) >>
           \o (IF flag_scm_flavor = "git"
               THEN << SCmd("svn co " \o llvm_ro_svn \o "/llgo/trunk llgo") >>
               ELSE << SCmd("git clone " \o llgo_git \o " llgo") >>
                    \o GitSvnSteps("llgo", "llgo"))
      ELSE <<>>)
  \o << Cd(top \o <<"llvm", "projects">>) >>
  \o (IF flag_scm_flavor = "svn"
      THEN << SCmd("svn co " \o llvm_ro_svn \o "/compiler-rt/trunk compiler-rt") >>
      ELSE << SCmd("git clone " \o compiler_rt_git) >>
           \o GitSvnSteps("compiler-rt", "compiler-rt"))
  \o << Cd(top),
        SCmd("git clone " \o binutils_git \o " binutils"),
        CdHere >>

\* Body of do_fetch(flavor, where), after `here = os.getcwd()`.
FetchSteps(flavor, where) ==
  << Cd(where) >>
  \o (IF flavor = "git" THEN << Cmd("git fetch") >>
      ELSE IF flavor = "git-svn"
      THEN << Cmd("git fetch"), Cmd("git svn rebase -l") >>
      ELSE << Cmd("svn update") >>)
  \o << CdHere >>

\* The commands do_fetch issues.
UpdateCmds == {"git fetch", "git svn rebase -l", "svn update"}

tofind == IF flag_scm_flavor = "svn" THEN ".svn" ELSE ".git"

FindCmd == "find . -depth -name " \o tofind \o " -print"

\* The i-th line "find" prints.
FoundLine(i) == <<".", "repo" \o ToString(i), tofind>>

\* Body of fetch_in_volume.
FetchInVolumeSteps ==
  << Cd(top),
     Call("do_fetch", <<"git", <<"binutils">>>>),
     Cd(<<"llvm">>),
     Call("docmdlines_find", <<>>),
     Cd(top) >>

\* Body of do_configure_binutils.
ConfigureBinutilsSteps ==
  << Cmd("mkdir binutils-build"),
     Cd(<<"binutils-build">>),
     SCmd("../binutils/configure --enable-gold "
            \o "--enable-plugins --disable-werror"),
     Cd(<<"..">>) >>

MksnapCmd == "snapshotutil.py mksnap " \o flag_subvol \o " " \o flag_snapshot

\* do_snapshot_create taking the snapshot before the refresh.
SnapshotCreateStepsSnapFirst ==
  << Cmd(MksnapCmd) >>
  \o (IF flag_do_fetch THEN << Call("fetch_in_volume", <<>>) >> ELSE <<>>)
  \o << Cd(ssdroot), Cd(<<flag_snapshot>>) >>
  \o ConfigureBinutilsSteps
  \o << Call("do_setup_cmake", <<>>) >>

\* Body of do_snapshot_create.
SnapshotCreateSteps ==
  (IF flag_do_fetch THEN << Call("fetch_in_volume", <<>>) >> ELSE <<>>)
  \o << Cmd(MksnapCmd), Cd(ssdroot), Cd(<<flag_snapshot>>) >>
  \o ConfigureBinutilsSteps
  \o << Call("do_setup_cmake", <<>>) >>

\* Body of do_snapshot_build (its u.verbose notes left out).
SnapshotBuildSteps ==
  << Cd(ssdroot), Cd(<<flag_snapshot>>) >>
  \o (IF flag_binutils_build
      THEN << Cd(<<"binutils-build">>), SCmd("make -j40"),
              SCmd("make -j40 all-gold"), Cd(<<"..">>) >>
      ELSE <<>>)
  \o (IF flag_run_ninja
      THEN << Cd(<<"build.opt">>), Cmd("ninja"), Cd(<<"..">>) >>
      ELSE <<>>)

\* One iteration of the loop of do_setup_cmake, up to emit_cmake_cmd_script.
SetupCmakeSteps(flav) ==
  << Cmd("mkdir build." \o flav),
     Cd(<<"build." \o flav>>),
     Call("emit_rebuild_scripts", flav),
     Call("emit_cmake_cmd_script", flav) >>

\* r.get(timeout=600) over the dispatched results, in order: the first
\* result that does not answer in time raises TimeoutError there; otherwise
\* rc is 1 when some result is not 0.
AwaitOutcome(outs) ==
  IF \E i \in DOMAIN outs : outs[i] = "timeout"
  THEN Raised("multiprocessing.TimeoutError")
  ELSE IF \E i \in DOMAIN outs : outs[i] # "0"
  THEN Fatal("one or more cmake cmds failed")
  ELSE Ok("")

\* ------------------------------------------------------------------ Init
DefaultFlags ==
  /\ flag_subvol = None
  /\ flag_snapshot = None
  /\ flag_user = None
  /\ flag_binutils_build = TRUE
  /\ flag_run_ninja = TRUE
  /\ flag_echo = TRUE
  /\ flag_dryrun = FALSE
  /\ flag_scm_flavor = "git-svn"
  /\ flag_cmake_type = "Debug"
  /\ flag_do_fetch = FALSE
  /\ flag_include_tools = TRUE
  /\ flag_include_llgo = FALSE
  /\ flag_parallel = TRUE
  /\ ssdroot = <<>>
  /\ llvm_rw_svn = llvm_rw_svn_template
  /\ verbosity = 0

FreshProcess ==
  /\ todo = <<>>
  /\ heres = <<>>
  /\ cwd = StartDir
  /\ log = <<>>
  /\ wet = [log |-> <<>>, cwd |-> StartDir, heres |-> <<>>]
  /\ issued = <<>>
  /\ procs = <<>>
  /\ nchdir = 0
  /\ files = {}
  /\ pool = FALSE
  /\ results = <<>>
  /\ remaining = {}
  /\ curflav = None
  /\ failed = FALSE
  /\ exit = "running"
  /\ errmsg = ""
  /\ resolved = [kind |-> "none", val |-> ""]

Init ==
  /\ argv \in CmdLines
  /\ cmake_flavors = ShippedFlavors
  /\ DefaultFlags
  /\ FreshProcess
  /\ pc = "parse"

\* The process ends: sys.exit(1) of usage / u.error, or an uncaught exception.
End(kind, msg) ==
  /\ exit' = kind
  /\ errmsg' = msg
  /\ pc' = "done"

\* ------------------------------------------------------------ parse_args
\* UsageError without the check that -r named a subvolume.
UsageErrorNoSubvolCheck(a) ==
  IF Has(a, "-Z") THEN "option -Z not recognized"
  ELSE IF Has(a, "-S") /\ ArgOf(a, "-S") \notin {"git", "svn", "git-svn"}
  THEN "illegal SCM flavor " \o ArgOf(a, "-S")
  ELSE IF Has(a, "") THEN "unknown extra args"
  ELSE None

\* The usage error of a command line (None when it has none), in the order
\* parse_args finds them.
UsageError(a) ==
  IF Has(a, "-Z") THEN "option -Z not recognized"
  ELSE IF Has(a, "-S") /\ ArgOf(a, "-S") \notin {"git", "svn", "git-svn"}
  THEN "illegal SCM flavor " \o ArgOf(a, "-S")
  ELSE IF Has(a, "") THEN "unknown extra args"
  ELSE IF Falsy(IF Has(a, "-r") THEN ArgOf(a, "-r") ELSE None)
  THEN "specify subvol name with -r"
  ELSE None

\* Validate cmake_flavors: the first entry with an unknown tag, if any.
BadTags == {tag \in DOMAIN cmake_flavors :
              ~(DOMAIN cmake_flavors[tag] \subseteq legal_tags)}

ParseArgs ==
  /\ pc = "parse"
  /\ LET err == UsageError(argv)
         getoptFailed == Has(argv, "-Z")
         scmOk == Has(argv, "-S") /\ ArgOf(argv, "-S") \in {"git", "svn", "git-svn"}
     IN
     /\ verbosity' = IF ~getoptFailed /\ Has(argv, "-d") THEN verbosity + 1 ELSE verbosity
     /\ flag_binutils_build' = IF ~getoptFailed /\ Has(argv, "-N") THEN FALSE
                               ELSE flag_binutils_build
     /\ flag_run_ninja' = IF ~getoptFailed /\ Has(argv, "-n") THEN FALSE
                          ELSE flag_run_ninja
     /\ flag_scm_flavor' = IF ~getoptFailed /\ scmOk THEN ArgOf(argv, "-S")
                           ELSE flag_scm_flavor
     /\ flag_echo' = IF ~getoptFailed /\ Has(argv, "-q") THEN FALSE ELSE flag_echo
     /\ flag_dryrun' = IF ~getoptFailed /\ Has(argv, "-D") THEN TRUE ELSE flag_dryrun
     /\ flag_include_llgo' = IF ~getoptFailed /\ Has(argv, "-G") THEN TRUE
                             ELSE flag_include_llgo
     /\ flag_do_fetch' = IF ~getoptFailed /\ Has(argv, "-F") THEN TRUE ELSE flag_do_fetch
     /\ flag_parallel' = IF ~getoptFailed /\ Has(argv, "-J") THEN TRUE ELSE flag_parallel
     /\ flag_cmake_type' = IF ~getoptFailed /\ Has(argv, "-X") THEN "RelWithDebInfo"
                           ELSE flag_cmake_type
     /\ flag_include_tools' = IF ~getoptFailed /\ Has(argv, "-T") THEN FALSE
                              ELSE flag_include_tools
     /\ flag_subvol' = IF ~getoptFailed /\ Has(argv, "-r") THEN ArgOf(argv, "-r")
                       ELSE flag_subvol
     /\ flag_snapshot' = IF ~getoptFailed /\ Has(argv, "-s") THEN ArgOf(argv, "-s")
                         ELSE flag_snapshot
     /\ IF err # None
        THEN \* usage(msg): the message, the usage text, sys.exit(1)
             /\ log' = log \o <<"error: " \o err, "usage: [options]">>
             /\ wet' = [wet EXCEPT !.log = @ \o <<"error: " \o err, "usage: [options]">>]
             /\ End("usage", err)
             /\ UNCHANGED <<flag_user, llvm_rw_svn, ssdroot, procs>>
        ELSE \E answer \in {"user", "root"} :
             \* lines = u.docmdlines("whoami")
             /\ procs' = Append(procs, "whoami")
             /\ flag_user' = answer
             /\ UNCHANGED <<log, wet>>
             /\ IF answer = "root"
                THEN /\ End("fatal", "please don't run this script as root")
                     /\ UNCHANGED <<llvm_rw_svn, ssdroot>>
                ELSE /\ llvm_rw_svn' = llvm_rw_svn_for(answer)
                     /\ IF BadTags # {}
                        THEN /\ End("fatal", "internal error: cmake_flavors entry "
                                               \o "has unknown tag")
                             /\ UNCHANGED ssdroot
                        ELSE /\ ssdroot' = SsdRoot
                             /\ pc' = "main"
                             /\ UNCHANGED <<exit, errmsg>>
  /\ UNCHANGED <<envvars, todo, heres, cwd, issued, nchdir, files, pool,
                 results, remaining, curflav, failed, resolved>>

\* Main portion of script.
Main ==
  /\ pc = "main"
  /\ pc' = "run"
  /\ todo' = IF ~Falsy(flag_snapshot)
             THEN << Call("do_snapshot_create", <<>>) >> \o SnapshotBuildSteps
             ELSE << Call("do_subvol_create", <<>>) >>
  /\ UNCHANGED <<envvars, flagvars, heres, cwd, log, wet, issued, procs, nchdir,
                 files, pool, results, remaining, curflav, failed, exit, errmsg,
                 resolved>>

\* The script runs off its last line: exit status 0.
ScriptEnd ==
  /\ pc = "run"
  /\ todo = <<>>
  /\ End("ok", "")
  /\ UNCHANGED <<envvars, flagvars, todo, heres, cwd, log, wet, issued, procs,
                 nchdir, files, pool, results, remaining, curflav, failed,
                 resolved>>

AtCall(f) == pc = "run" /\ todo # <<>> /\ Head(todo).op = f

\* ---------------------------------------------- command execution facade
\* Whether docmd / doscmd write their "executing:" line.
EchoCmd(dry) == flag_echo

\* dochdir echoing in dry-run mode only.
EchoChdirDryOnly(dry) == dry

\* Whether dochdir writes its "cd" line.
EchoChdir(dry) == flag_echo \/ dry

Docmd ==
  /\ AtCall("docmd")
  /\ LET cmd == Head(todo).arg IN
     /\ log' = IF EchoCmd(flag_dryrun) THEN Append(log, "executing: " \o cmd) ELSE log
     /\ wet' = [wet EXCEPT !.log = IF EchoCmd(FALSE)
                                   THEN Append(@, "executing: " \o cmd) ELSE @]
     /\ issued' = Append(issued, cmd)
     /\ IF flag_dryrun
        THEN /\ todo' = Tail(todo)
             /\ UNCHANGED <<procs, failed, pc, exit, errmsg>>
        ELSE \E ok \in BOOLEAN :
             /\ procs' = Append(procs, cmd)
             /\ IF u_docmd(ok) = "ok"
                THEN /\ todo' = Tail(todo)
                     /\ UNCHANGED <<failed, pc, exit, errmsg>>
                ELSE /\ failed' = TRUE
                     /\ End("fatal", "command failed: " \o cmd)
                     /\ UNCHANGED todo
  /\ UNCHANGED <<envvars, flagvars, heres, cwd, nchdir, files, pool, results,
                 remaining, curflav, resolved>>

Doscmd ==
  /\ AtCall("doscmd")
  /\ LET cmd == Head(todo).arg IN
     /\ log' = IF EchoCmd(flag_dryrun) THEN Append(log, "executing: " \o cmd) ELSE log
     /\ wet' = [wet EXCEPT !.log = IF EchoCmd(FALSE)
                                   THEN Append(@, "executing: " \o cmd) ELSE @]
     /\ issued' = Append(issued, cmd)
     /\ todo' = Tail(todo)
     /\ IF flag_dryrun
        THEN UNCHANGED <<procs, failed>>
        ELSE \E ok \in BOOLEAN :
             /\ procs' = Append(procs, cmd)
             /\ failed' = (failed \/ u_doscmd(ok) # "ok")
  /\ UNCHANGED <<envvars, flagvars, heres, cwd, nchdir, files, pool, results,
                 remaining, curflav, resolved, pc, exit, errmsg>>

Dochdir ==
  /\ pc = "run" /\ todo # <<>> /\ Head(todo).op \in {"dochdir", "dochdir_here"}
  /\ LET ishere == Head(todo).op = "dochdir_here"
         thedir == IF ishere THEN Head(heres) ELSE Head(todo).arg
         wetdir == IF ishere THEN Head(wet.heres) ELSE Head(todo).arg
     IN
     /\ log' = IF EchoChdir(flag_dryrun) THEN Append(log, "cd " \o PathStr(thedir))
               ELSE log
     /\ wet' = [log |-> IF EchoChdir(FALSE)
                        THEN Append(wet.log, "cd " \o PathStr(wetdir)) ELSE wet.log,
                cwd |-> Chdir(wet.cwd, wetdir),
                heres |-> IF ishere THEN Tail(wet.heres) ELSE wet.heres]
     /\ heres' = IF ishere THEN Tail(heres) ELSE heres
     /\ IF flag_dryrun
        THEN /\ todo' = Tail(todo)
             /\ UNCHANGED <<cwd, nchdir, failed, pc, exit, errmsg>>
        ELSE \E ok \in BOOLEAN :
             /\ nchdir' = nchdir + 1
             /\ IF ok
                THEN /\ cwd' = Chdir(cwd, thedir)
                     /\ todo' = Tail(todo)
                     /\ UNCHANGED <<failed, pc, exit, errmsg>>
                ELSE /\ failed' = TRUE
                     /\ End("fatal", "chdir failed: " \o PathStr(thedir))
                     /\ UNCHANGED <<cwd, todo>>
  /\ UNCHANGED <<envvars, flagvars, issued, procs, files, pool, results,
                 remaining, curflav, resolved>>

\* ------------------------------------------------------ function entries
\* `here = os.getcwd()`, in the run and in its twin.
SaveHere ==
  /\ heres' = <<cwd>> \o heres
  /\ wet' = [wet EXCEPT !.heres = <<wet.cwd>> \o @]

DoSubvolCreate ==
  /\ AtCall("do_subvol_create")
  /\ SaveHere
  /\ todo' = SubvolSteps \o Tail(todo)
  /\ UNCHANGED <<envvars, flagvars, pc, cwd, log, issued, procs, nchdir, files,
                 pool, results, remaining, curflav, failed, exit, errmsg,
                 resolved>>

DoSnapshotCreate ==
  /\ AtCall("do_snapshot_create")
  /\ todo' = SnapshotCreateSteps \o Tail(todo)
  /\ UNCHANGED <<envvars, flagvars, pc, heres, cwd, log, wet, issued, procs,
                 nchdir, files, pool, results, remaining, curflav, failed, exit,
                 errmsg, resolved>>

FetchInVolume ==
  /\ AtCall("fetch_in_volume")
  /\ todo' = FetchInVolumeSteps \o Tail(todo)
  /\ UNCHANGED <<envvars, flagvars, pc, heres, cwd, log, wet, issued, procs,
                 nchdir, files, pool, results, remaining, curflav, failed, exit,
                 errmsg, resolved>>

\* lines = u.docmdlines("find ..."), and the loop over them: the find
\* process is spawned directly, whatever flag_dryrun says.
FindRepos ==
  /\ AtCall("docmdlines_find")
  /\ procs' = Append(procs, FindCmd)
  /\ \E n \in 0..MaxFound :
       todo' = [i \in 1..n |-> Call("do_fetch", <<flag_scm_flavor, FoundLine(i)>>)]
               \o Tail(todo)
  /\ UNCHANGED <<envvars, flagvars, pc, heres, cwd, log, wet, issued, nchdir,
                 files, pool, results, remaining, curflav, failed, exit, errmsg,
                 resolved>>

DoFetch ==
  /\ AtCall("do_fetch")
  /\ SaveHere
  /\ todo' = FetchSteps(Head(todo).arg[1], Head(todo).arg[2]) \o Tail(todo)
  /\ UNCHANGED <<envvars, flagvars, pc, cwd, log, issued, procs, nchdir, files,
                 pool, results, remaining, curflav, failed, exit, errmsg,
                 resolved>>

\* --------------------------------------------------------- do_setup_cmake
\* Whether do_setup_cmake creates the worker pool.
CreatesPool == flag_parallel

\* Entry of do_setup_cmake: the pool, the empty result list.
DoSetupCmake ==
  /\ AtCall("do_setup_cmake")
  /\ pool' = (pool \/ CreatesPool)
  /\ results' = <<>>
  /\ remaining' = DOMAIN cmake_flavors
  /\ todo' = << Call("for_flav", <<>>) >> \o Tail(todo)
  /\ UNCHANGED <<envvars, flagvars, pc, heres, cwd, log, wet, issued, procs,
                 nchdir, files, curflav, failed, exit, errmsg, resolved>>

\* `for flav in cmake_flavors:` in an order the dict decides; after the last
\* entry, the wait on the dispatched results.
SetupCmakeLoop ==
  /\ AtCall("for_flav")
  /\ IF remaining # {}
     THEN /\ \E flav \in remaining :
               /\ curflav' = flav
               /\ remaining' = remaining \ {flav}
               /\ todo' = SetupCmakeSteps(flav) \o todo
          /\ UNCHANGED <<pc, exit, errmsg>>
     ELSE /\ \E outs \in [1..Len(results) ->
                           {run_cmake(c, k) : c, k \in BOOLEAN} \cup {"timeout"}] :
               LET r == AwaitOutcome(outs)
               IN IF r.kind = "ok"
                  THEN todo' = Tail(todo) /\ UNCHANGED <<pc, exit, errmsg>>
                  ELSE End(r.kind, r.val) /\ UNCHANGED todo
          /\ UNCHANGED <<curflav, remaining>>
  /\ UNCHANGED <<envvars, flagvars, heres, cwd, log, wet, issued, procs, nchdir,
                 files, pool, results, failed, resolved>>

RebuildScripts == {".clean.sh", ".build-all.sh", ".clean-and-build-all.sh"}

\* Emit top-level clean, rebuild scripts.
EmitRebuildScripts ==
  /\ AtCall("emit_rebuild_scripts")
  /\ IF flag_dryrun
     THEN /\ log' = Append(log, "+++ archiving clean + build cmds")
          /\ todo' = Tail(todo)
          /\ UNCHANGED <<files, failed, pc, exit, errmsg>>
     ELSE \E wrote \in BOOLEAN :
          /\ log' = log
          /\ IF wrote
             THEN /\ files' = files \cup {<<cwd, f>> : f \in RebuildScripts}
                  /\ todo' = Tail(todo)
                  /\ UNCHANGED <<failed, pc, exit, errmsg>>
             ELSE /\ failed' = TRUE
                  /\ End("fatal", "open/write failed for .clean.sh")
                  /\ UNCHANGED <<files, todo>>
  /\ UNCHANGED <<envvars, flagvars, heres, cwd, wet, issued, procs, nchdir, pool,
                 results, remaining, curflav, resolved>>

\* cmake_cmd = emit_cmake_cmd_script(flav), and what do_setup_cmake does
\* with the command: dispatch it to the pool, or run it with doscmd.
EmitCmakeCmdScript ==
  /\ AtCall("emit_cmake_cmd_script")
  /\ LET flav == Head(todo).arg
         r == cmake_cmd_for(flav)
         builddir == PathStr(ssdroot) \o "/" \o flag_snapshot \o "/build." \o flav
     IN
     /\ resolved' = select_compiler_flavor(flav)
     /\ IF r.kind # "ok"
        THEN /\ End(r.kind, r.val)
             /\ UNCHANGED <<todo, log, files, results, failed>>
        ELSE IF flag_dryrun
        THEN /\ log' = Append(log, "+++ archiving cmake cmd: " \o r.val)
             /\ todo' = << SCmd(r.val), Cd(<<"..">>) >> \o Tail(todo)
             /\ UNCHANGED <<files, results, failed, pc, exit, errmsg>>
        ELSE \E wrote \in BOOLEAN :
             /\ log' = log
             /\ IF ~wrote
                THEN /\ failed' = TRUE
                     /\ End("fatal", "open/write failed for .cmake_cmd")
                     /\ UNCHANGED <<todo, files, results>>
                ELSE /\ files' = files \cup {<<cwd, ".cmake_cmd">>}
                     /\ UNCHANGED <<failed, pc, exit, errmsg>>
                     /\ IF flag_parallel
                        THEN /\ results' = Append(results, <<builddir, r.val>>)
                             /\ todo' = << Cd(<<"..">>) >> \o Tail(todo)
                        ELSE /\ todo' = << SCmd(r.val), Cd(<<"..">>) >> \o Tail(todo)
                             /\ UNCHANGED results
  /\ UNCHANGED <<envvars, flagvars, heres, cwd, wet, issued, procs, nchdir, pool,
                 remaining, curflav>>

\* ------------------------------------------------------------------ Spec
Next ==
  \/ ParseArgs
  \/ Main
  \/ DoSubvolCreate
  \/ DoSnapshotCreate
  \/ FetchInVolume
  \/ FindRepos
  \/ DoFetch
  \/ Docmd
  \/ Doscmd
  \/ Dochdir
  \/ DoSetupCmake
  \/ SetupCmakeLoop
  \/ EmitRebuildScripts
  \/ EmitCmakeCmdScript
  \/ ScriptEnd

Spec == Init /\ [][Next]_vars

TypeOK ==
  /\ pc \in {"parse", "main", "run", "done", "flavor"}
  /\ exit \in {"running", "ok", "usage", "fatal", "exception"}

\* ------------------------------------- select_compiler_flavor on its own
\* ccflav settings of a bootstrap entry: the documented "bootstrap=%B" and
\* the "bootstrap.%B" the regular expression accepts, naming a configuration
\* of the table, its build directory, or neither.
CcflavCandidates ==
  { <<"bootstrap", sep>> \o name :
      sep \in {"=", "."},
      name \in { <<"build.opt">>, <<"opt">>, <<"build.nosuch">>, <<"nosuch">> } }

InitFlavor ==
  /\ \E c \in CcflavCandidates :
       cmake_flavors = [ShippedFlavors EXCEPT !["bootstrap.reldb"].ccflav = c]
  /\ flag_subvol \in {"vol", "trunk"}
  /\ flag_snapshot \in {"snap", "work"}
  /\ argv = {<<"-r", flag_subvol>>, <<"-s", flag_snapshot>>}
  /\ ssdroot \in {SsdRoot, <<"/", "mnt", "ssd">>}
  /\ flag_user = "user"
  /\ flag_binutils_build = TRUE
  /\ flag_run_ninja = TRUE
  /\ flag_echo = TRUE
  /\ flag_dryrun = FALSE
  /\ flag_scm_flavor = "git-svn"
  /\ flag_cmake_type = "Debug"
  /\ flag_do_fetch = FALSE
  /\ flag_include_tools = TRUE
  /\ flag_include_llgo = FALSE
  /\ flag_parallel = TRUE
  /\ llvm_rw_svn = llvm_rw_svn_for("user")
  /\ verbosity = 0
  /\ FreshProcess
  /\ pc = "flavor"

\* One call of select_compiler_flavor(flav).
SelectCompilerFlavor ==
  /\ pc = "flavor"
  /\ \E flav \in DOMAIN cmake_flavors :
       LET r == select_compiler_flavor(flav)
       IN /\ curflav' = flav
          /\ resolved' = r
          /\ IF r.kind = "ok"
             THEN UNCHANGED <<pc, exit, errmsg>>
             ELSE End(r.kind, r.val)
  /\ UNCHANGED <<envvars, flagvars, todo, heres, cwd, log, wet, issued, procs,
                 nchdir, files, pool, results, remaining, failed>>

NextFlavor == SelectCompilerFlavor

SpecFlavor == InitFlavor /\ [][NextFlavor]_vars

\* ================================================================= claims
InLog(line) == \E i \in DOMAIN log : log[i] = line

Parallel == flag_parallel /\ ~flag_dryrun

\* C1: a command line without -r ends in the usage path with a non-zero
\* exit status, and up to that exit no external process has been spawned,
\* no directory changed, no file written.
C1_NoSubvolIsUsageError ==
  (~Has(argv, "-r") /\ pc # "parse") =>
    /\ pc = "done"
    /\ exit = "usage"
    /\ ExitStatus = 1
    /\ procs = <<>>
    /\ nchdir = 0
    /\ cwd = StartDir
    /\ files = {}
    /\ ~pool

C1_Witness ==
  /\ ~Has(argv, "-r")
  /\ Has(argv, "-s")
  /\ pc = "done"
  /\ errmsg = "specify subvol name with -r"

IsUpdateCall(o) ==
  \/ o.op \in {"fetch_in_volume", "do_fetch", "docmdlines_find"}
  \/ o.op = "docmd" /\ o.arg \in UpdateCmds

\* C2: once the "snapshotutil.py mksnap" command has been issued, every
\* update command of the refresh was issued (and, commands being run
\* synchronously, had finished) before it, and none is still to come.
C2_FetchBeforeSnapshot ==
  \A i \in DOMAIN issued :
    issued[i] = MksnapCmd =>
      /\ \A j \in DOMAIN issued : issued[j] \in UpdateCmds => j < i
      /\ \A k \in DOMAIN todo : ~IsUpdateCall(todo[k])

C2_Witness ==
  /\ flag_do_fetch
  /\ ~flag_dryrun
  /\ Len(issued) >= 3
  /\ issued[Len(issued)] = MksnapCmd
  /\ \A j \in 1..(Len(issued) - 1) : issued[j] \in UpdateCmds
  /\ procs[Len(procs)] = MksnapCmd

\* C3 (as claimed): in dry-run mode the run spawns no external process,
\* changes no directory and creates no worker pool.
C3_DryRunHasNoSideEffect ==
  flag_dryrun => (procs = <<>> /\ nchdir = 0 /\ ~pool)

\* C4 (as claimed): with every external command succeeding, a run with -D
\* logs the same lines as the same run without -D, whatever the other flags.
C4_DryRunLogsTheSame ==
  (pc = "done" /\ flag_dryrun) => log = wet.log

\* C4 (amended): in volume mode and without -q, a run with -D logs the same
\* lines as the same run without -D in which every command succeeds.
C4_DryRunLogsTheSameInVolumeMode ==
  (pc = "done" /\ flag_dryrun /\ flag_echo /\ Falsy(flag_snapshot)) => log = wet.log

C4_Witness ==
  /\ pc = "done"
  /\ exit = "ok"
  /\ flag_dryrun
  /\ flag_echo
  /\ Falsy(flag_snapshot)
  /\ flag_include_llgo
  /\ Len(log) > 20
  /\ log = wet.log

\* C5 (as claimed): "-r vol -s snap -D" by a non-privileged user ends with
\* exit status 0, having logged the snapshot creation and, for every table
\* entry, its mkdir, its script archiving and its configuration command.
C5_DryRunSnapshotExitsZero ==
  (argv = {<<"-r", "vol">>, <<"-s", "snap">>, <<"-D", "">>}
     /\ flag_user = "user" /\ pc = "done") =>
    /\ exit = "ok"
    /\ ExitStatus = 0
    /\ InLog("executing: " \o MksnapCmd)
    /\ \A flav \in DOMAIN cmake_flavors : InLog("executing: mkdir build." \o flav)

\* C6 (as claimed): with -J on the command line parallel execution is
\* disabled: no pool, and nothing is dispatched to one.
C6_SerialFlagDisablesParallel ==
  (Has(argv, "-J") /\ pc \notin {"parse"} /\ exit # "usage") =>
    (~flag_parallel /\ ~pool /\ results = <<>>)

BuildDir(flav) == ssdroot \o <<flag_snapshot, "build." \o flav>>

SetupCmakeOver == pool /\ pc = "done" /\ ~failed

\* C7 (as claimed): in a parallel, non-dry-run run in which no command,
\* chdir or file write of the dispatching process fails, do_setup_cmake has
\* created the record file of every table entry by the time it is over.
C7_AllRecordsBeforeAwait ==
  (Parallel /\ SetupCmakeOver) =>
    \A flav \in DOMAIN cmake_flavors : <<BuildDir(flav), ".cmake_cmd">> \in files

\* C8 (as claimed): in such a run every table entry's invocation has been
\* dispatched, and the run ends either normally or with the aggregate error
\* reported after the results were collected.
C8_FailLateAggregate ==
  (Parallel /\ SetupCmakeOver) =>
    /\ Len(results) = Cardinality(DOMAIN cmake_flavors)
    /\ \/ exit = "ok"
       \/ exit = "fatal" /\ errmsg = "one or more cmake cmds failed"

\* The bootstrap reference of a ccflav setting, in either spelling.
IsBootstrapRef(ccflav) ==
  Len(ccflav) >= 3 /\ ccflav[1] = "bootstrap" /\ ccflav[2] \in {"=", "."}

RefName(ccflav) == Join(SubSeq(ccflav, 3, Len(ccflav)))

\* The referenced name is a configuration of the table, or its build directory.
RefExists(name) ==
  \E k \in DOMAIN cmake_flavors : name = k \/ name = "build." \o k

Resolving(flav) == resolved.kind # "none" /\ curflav = flav

\* C9 (as claimed): resolving an entry whose ccflav is a bootstrap reference
\* is fatal exactly when the referenced configuration is not in the table.
C9_DanglingBootstrapIsFatal ==
  \A flav \in DOMAIN cmake_flavors :
    (Resolving(flav) /\ IsBootstrapRef(cmake_flavors[flav]["ccflav"])) =>
      (resolved.kind = "fatal" <=> ~RefExists(RefName(cmake_flavors[flav]["ccflav"])))

\* The directory of the referenced configuration in the snapshot.
RefDir(name) == PathStr(ssdroot) \o "/" \o flag_snapshot \o "/" \o name

\* C10 (as claimed): resolving "bootstrap.reldb", which references the
\* existing build.opt, answers flags naming bin/clang, bin/clang++,
\* llvm-ranlib and llvm-ar of build.opt in the snapshot.
C10_BootstrapResolvesToRefDir ==
  (Resolving("bootstrap.reldb")
     /\ cmake_flavors["bootstrap.reldb"]["ccflav"] = <<"bootstrap", "=", "build.opt">>) =>
    resolved = Ok(CompilerFlags(
                    "-DCMAKE_RANLIB=" \o RefDir("build.opt") \o "/bin/llvm-ranlib "
                      \o "-DCMAKE_AR=" \o RefDir("build.opt") \o "/bin/llvm-ar ",
                    RefDir("build.opt") \o "/bin/clang",
                    RefDir("build.opt") \o "/bin/clang++"))

\* C11 is about the time between a dispatch to the pool (line 485) and the
\* collection of its result (line 495).  No run gets there: every iteration
\* of the loop of do_setup_cmake ends in emit_cmake_cmd_script, so nothing
\* is ever dispatched and no worker task is ever in flight.
NothingDispatched == results = <<>>

\* The loop of do_setup_cmake never gets past its first table entry.
FirstEntryOnly ==
  pool => Cardinality(remaining) >= Cardinality(DOMAIN cmake_flavors) - 1

====
